---------------------------- MODULE Spec2Model ----------------------------
(***************************************************************************)
(* OpenClaw Lite: QueryRouter (router.py) and CostTracker                  *)
(* (cost_tracker.py) as a state machine.                                   *)
(*                                                                         *)
(* Units.  Token counts are exact integers.  Money is an integer number of *)
(* 10^-5 USD, so that tokens/1e6 * price is exact for token counts that    *)
(* are multiples of TokenQuantum; prices are in cents per million tokens.  *)
(* Percentages are integers in hundredths of a percent (round(x, 2)).      *)
(* The UTC month "%Y-%m" is the index of the month, 0..MaxMonth.           *)
(* asyncio runs one coroutine at a time and switches only at an await, so  *)
(* each action is the code between two awaits of route().                  *)
(***************************************************************************)
EXTENDS Integers, Sequences, FiniteSets, Bags

(* ------------------------------ bounds -------------------------------- *)
\* route() invocations (each may be in flight with the others)
MaxReq == 2
\* direct CostTracker.track() calls, made outside route()
MaxTracks == 2
\* last month the clock reaches
MaxMonth == 1
\* occurrences of one pattern in a text given to the analyzer
MaxOcc == 2
\* messages of a conversation given to ClaudeProvider._convert_messages
MaxMsgs == 3
\* last second the wall clock reaches
MaxTime == 3
\* Settings.rate_limit_requests and Settings.rate_limit_window (seconds) as
\* configured here
rate_limit_requests == 2
rate_limit_window == 2

(* ----------------------------- constants ------------------------------ *)
Providers == {"openai", "claude"}
None == "none"
\* Settings.complexity_threshold, in thousandths
complexity_threshold == 500
\* tokens per 10^-5 USD at one cent per million tokens
TokenQuantum == 1000
\* 10^-5 USD per 10^-4 USD: the grid of round(x, 4)
Round4Grid == 10
\* 10^-5 USD per 0.1 USD: budgets are multiples of it
BudgetGrid == 10000
\* the configured budgets tried: 0 USD, 50 USD
Budgets == {0, 5000000}
\* ClaudeProvider.model, as configured (Settings.claude_model)
ClaudeModels == {"claude-sonnet-4-20250514"}
\* the model identifiers an OpenAI response carries (the API reports the
\* dated snapshot it served, which the pricing table may not know)
OpenAIModels == {"gpt-4o-mini", "gpt-4o-mini-2024-07-18"}
\* usage (prompt_tokens, completion_tokens) a backend response reports
Usages == {<<1000, 2000>>, <<0, 4000000>>}
\* the arguments of a track() call made on the tracker directly: any model
\* identifier with any provider tag, and the token counts of a response or
\* one million of each
TrackModels == OpenAIModels \cup ClaudeModels
TrackUsages == Usages \cup {<<1000000, 1000000>>}
\* what an awaited generate() raises: a provider error and a provider
\* timeout are Exceptions, asyncio.CancelledError is a BaseException
Raised == {"ProviderError", "TimeoutError", "CancelledError"}
\* ComplexityAnalyzer.COMPLEX_PATTERNS, each by the text it looks for
COMPLEX_PATTERNS ==
    << "analyze", "evaluate", "step-by-step", "explain in detail", "compare",
       "contrast", "why", "how does", "implement", "debug", "code fence", "code",
       "function", "class", "algorithm" >>
\* the joined text of a conversation, by what score() reads of it: the
\* number of its words and, per pattern, the number of places it occurs at
TextWith(words, found) ==
    [words |-> words,
     occ |-> [i \in DOMAIN COMPLEX_PATTERNS |->
                IF COMPLEX_PATTERNS[i] \in found THEN 1 ELSE 0]]
\* 'why does TCP use a three-way handshake? implement a state diagram'
TCPQuestion == TextWith(11, {"why", "implement"})
\* the conversations routed: the TCP question, and sixty words that analyze,
\* compare, debug and show code
Conversations ==
    { TCPQuestion, TextWith(60, {"analyze", "compare", "debug", "code"}) }
\* the texts given to the analyzer alone: the first k patterns occur, each
\* the same number of times, in texts short and long
WordCounts == {0, 11, 199, 200, 201, 1000}
Texts ==
    { [words |-> w,
       occ |-> [i \in DOMAIN COMPLEX_PATTERNS |-> IF i <= k THEN n ELSE 0]] :
        w \in WordCounts, k \in 0 .. Len(COMPLEX_PATTERNS), n \in 1 .. MaxOcc }
    \cup Conversations
\* the roles of OpenAI-format messages
Roles == {"system", "user", "assistant"}
\* message contents: strings as sequences of pieces. The n-th message of a
\* conversation says nothing or its own one piece; "\n\n" is the piece the
\* converter joins with
Pieces == <<"a", "b", "c", "d", "e">>
Contents(n) == {<< >>, <<Pieces[n]>>}
Separator == "\n\n"
\* the conversations given to the converter
RECURSIVE MessageLists(_)
MessageLists(n) ==
    IF n = 0 THEN {<< >>}
    ELSE MessageLists(n - 1) \cup
         { Append(ms, [role |-> role, content |-> content]) :
             ms \in { x \in MessageLists(n - 1) : Len(x) = n - 1 },
             role \in Roles, content \in Contents(n) }
\* the HTTP requests that reach the middleware, by what it reads of them:
\* the path, the X-Forwarded-For header split at its commas (empty when the
\* header is absent) and the peer's host (None without request.client)
Requests ==
    { [path |-> "/v1/chat/completions", forwarded_for |-> <<"10.0.0.1", "10.0.0.2">>,
       host |-> "10.0.0.2"],
      [path |-> "/v1/stats", forwarded_for |-> << >>, host |-> "10.0.0.1"],
      [path |-> "/v1/models", forwarded_for |-> << >>, host |-> None],
      [path |-> "/health", forwarded_for |-> << >>, host |-> "10.0.0.2"] }
\* the addresses the middleware can attribute a request to
Addresses == {"10.0.0.1", "unknown"}
\* the thresholds an analyzer is built with, in thousandths
Thresholds == {0, 262, 263, 500, 1000, 1001}

VARIABLES
    avail,            \* provider -> is_available()
    monthly_budget,   \* CostTracker.monthly_budget
    claude_model,     \* ClaudeProvider.model
    clock,            \* the wall clock's UTC month
    current_month,    \* CostTracker._current_month
    monthly_costs,    \* CostTracker._monthly_costs
    monthly_tokens,   \* CostTracker._monthly_tokens
    total_requests,   \* CostTracker._total_requests
    openai_count,     \* QueryRouter.openai_count
    claude_count,     \* QueryRouter.claude_count
    req,              \* route() invocation -> its locals and position
    calls,            \* history: the bag of track() calls that applied their increments
    ret,              \* what the latest direct call (track, is_budget_exceeded,
                      \* is_complex, _convert_messages) returned, while the
                      \* state is as it left it
    snap,             \* history: the latest get_stats() results (two at most) since
                      \* the last track()/route(), each with the month of its call
    rate_limit_store, \* address -> the timestamps recorded for it
    time,             \* time.time(), in seconds
    passed            \* history: address -> the timestamps of its /v1/ requests
                      \* that the middleware passed on

config == <<avail, monthly_budget, claude_model>>
ledger == <<current_month, monthly_costs, monthly_tokens, total_requests>>
counters == <<openai_count, claude_count>>
limiter == <<rate_limit_store, time, passed>>
vars == <<avail, monthly_budget, claude_model, clock, current_month,
          monthly_costs, monthly_tokens, total_requests, openai_count,
          claude_count, req, calls, ret, snap, rate_limit_store, time, passed>>

(* --------------------------- pure functions --------------------------- *)
Min(a, b) == IF a <= b THEN a ELSE b

\* round() to a multiple of grid, ties to even (Python's round)
RoundHalfEven(x, grid) ==
    LET f == x \div grid
        r == x % grid
    IN  IF 2 * r < grid THEN f * grid
        ELSE IF 2 * r > grid THEN (f + 1) * grid
        ELSE IF f % 2 = 0 THEN f * grid ELSE (f + 1) * grid

\* round(n / d) to an integer, ties to even
RoundDiv(n, d) ==
    LET f == n \div d
        r == n % d
    IN  IF 2 * r < d THEN f
        ELSE IF 2 * r > d THEN f + 1
        ELSE IF f % 2 = 0 THEN f ELSE f + 1

Round4(x) == RoundHalfEven(x, Round4Grid)

\* PRICING, in cents per million tokens; the default for an unknown model
PRICING(model) ==
    CASE model = "gpt-4o-mini" -> [input |-> 15, output |-> 60]
      [] model = "gpt-4o" -> [input |-> 250, output |-> 1000]
      [] model = "claude-sonnet-4-20250514" -> [input |-> 300, output |-> 1500]
      [] model = "claude-opus-4-20250514" -> [input |-> 1500, output |-> 7500]
      [] OTHER -> [input |-> 100, output |-> 100]

\* mutant: the output tokens are charged at the input price
CostAtInputPrice(model, input_tokens, output_tokens) ==
    (input_tokens \div TokenQuantum) * PRICING(model).input
    + (output_tokens \div TokenQuantum) * PRICING(model).input

\* cost of one call, in 10^-5 USD
Cost(model, input_tokens, output_tokens) ==
    (input_tokens \div TokenQuantum) * PRICING(model).input
    + (output_tokens \div TokenQuantum) * PRICING(model).output

\* mutant: every occurrence of a pattern counts as a match
RECURSIVE OccurrencesFrom(_, _)
OccurrencesFrom(messages, i) ==
    IF i > Len(COMPLEX_PATTERNS) THEN 0
    ELSE messages.occ[i] + OccurrencesFrom(messages, i + 1)
MatchesEveryOccurrence(messages) == OccurrencesFrom(messages, 1)

\* sum(1 for p in self._patterns if p.search(text))
Matches(messages) ==
    Cardinality({i \in DOMAIN COMPLEX_PATTERNS : messages.occ[i] > 0})

\* mutant: a pattern weighs 0.3, so that two of them make a query complex
ScoreHeavyPatterns(messages) ==
    Min(messages.words * 2, 400) + Min(Matches(messages) * 300, 600)

\* ComplexityAnalyzer.score, in thousandths
Score(messages) ==
    Min(messages.words * 2, 400) + Min(Matches(messages) * 120, 600)

\* ComplexityAnalyzer(threshold).is_complex
IsComplexAt(messages, threshold) == Score(messages) >= threshold

\* is_complex of the router's analyzer
IsComplex(messages) == IsComplexAt(messages, complexity_threshold)

(* ClaudeProvider._convert_messages *)
\* system_message after the first i messages: None, or the system contents
\* joined; an empty system_message is replaced, not joined to
RECURSIVE SystemMessage(_, _)
SystemMessage(messages, i) ==
    IF i = 0 THEN None
    ELSE LET system_message == SystemMessage(messages, i - 1)
             msg == messages[i]
         IN  IF msg.role # "system" THEN system_message
             ELSE IF system_message = None \/ system_message = << >>
                  THEN msg.content
             ELSE system_message \o <<Separator>> \o msg.content

\* converted after the first loop: the other messages, as assistant or user
RECURSIVE Converted(_, _)
Converted(messages, i) ==
    IF i = 0 THEN << >>
    ELSE LET msg == messages[i]
         IN  IF msg.role = "system" THEN Converted(messages, i - 1)
             ELSE Append(Converted(messages, i - 1),
                         [role |-> IF msg.role = "assistant" THEN "assistant" ELSE "user",
                          content |-> msg.content])

\* ensure the first message is from the user
EnsureUserFirst(converted) ==
    IF converted # << >> /\ converted[1].role = "assistant"
    THEN <<[role |-> "user", content |-> <<"Continue.">>]>> \o converted
    ELSE converted

\* mutant: nothing is merged
RECURSIVE MergeNothing(_, _)
MergeNothing(converted, i) ==
    IF i = 0 THEN << >> ELSE Append(MergeNothing(converted, i - 1), converted[i])

\* merge consecutive same-role messages: merged after the first i messages
RECURSIVE Merge(_, _)
Merge(converted, i) ==
    IF i = 0 THEN << >>
    ELSE LET merged == Merge(converted, i - 1)
             msg == converted[i]
         IN  IF merged # << >> /\ merged[Len(merged)].role = msg.role
             THEN [merged EXCEPT ![Len(merged)].content =
                      @ \o <<Separator>> \o msg.content]
             ELSE Append(merged, msg)

\* what _convert_messages returns
ConvertMessages(messages) ==
    LET converted == EnsureUserFirst(Converted(messages, Len(messages)))
    IN  [system |-> SystemMessage(messages, Len(messages)),
         turns |-> Merge(converted, Len(converted))]

ZeroCosts == [p \in Providers |-> 0]
ZeroTokens == [p \in Providers |-> [input |-> 0, output |-> 0]]

\* mutants: the rollover forgets to reset the costs / the tokens
RolledCostsKeep == monthly_costs
RolledTokensKeep == monthly_tokens

\* _check_month_rollover: the ledger after it
RolledCosts == IF clock # current_month THEN ZeroCosts ELSE monthly_costs
RolledTokens == IF clock # current_month THEN ZeroTokens ELSE monthly_tokens

TotalCost(costs) == costs["openai"] + costs["claude"]

\* round(total_cost / monthly_budget * 100, 2), in hundredths of a percent
UtilizationPct(total_cost) == RoundDiv(total_cost, monthly_budget \div BudgetGrid)

\* what a call that divides by a zero budget raises
ZeroDivisionError == [error |-> "ZeroDivisionError"]

\* the summary track() returns, or the error it raises
TrackSummary(cost, costs) ==
    IF monthly_budget = 0 THEN ZeroDivisionError
    ELSE [cost_usd |-> cost,
          monthly_total_usd |-> Round4(TotalCost(costs)),
          budget_remaining_usd |-> Round4(monthly_budget - TotalCost(costs)),
          budget_utilization_pct |-> UtilizationPct(TotalCost(costs))]

\* CostTracker.get_stats on the rolled-over ledger
TrackerStats(costs, tokens) ==
    IF monthly_budget = 0 THEN ZeroDivisionError
    ELSE [month |-> clock,
          monthly_budget_usd |-> monthly_budget,
          total_cost_usd |-> Round4(TotalCost(costs)),
          budget_remaining_usd |-> Round4(monthly_budget - TotalCost(costs)),
          budget_utilization_pct |-> UtilizationPct(TotalCost(costs)),
          by_provider |-> [p \in Providers |->
              [cost_usd |-> Round4(costs[p]),
               input_tokens |-> tokens[p].input,
               output_tokens |-> tokens[p].output]],
          total_requests |-> total_requests]

\* round(count / total * 100, 2) if total else 0
Percentage(count, total) ==
    IF total = 0 THEN 0 ELSE RoundDiv(count * 10000, total)

\* QueryRouter.get_stats
RouterStats(costs, tokens) ==
    IF TrackerStats(costs, tokens) = ZeroDivisionError THEN ZeroDivisionError
    ELSE [total_requests |-> openai_count + claude_count,
          openai_requests |-> openai_count,
          claude_requests |-> claude_count,
          openai_percentage |-> Percentage(openai_count, openai_count + claude_count),
          claude_percentage |-> Percentage(claude_count, openai_count + claude_count),
          cost |-> TrackerStats(costs, tokens)]

\* mutant: hard enforcement, no provider is selected once the budget is spent
SelectPrimaryBudgetGated(is_complex) ==
    IF TotalCost(RolledCosts) >= monthly_budget THEN None
    ELSE IF is_complex /\ avail["claude"] THEN "claude"
    ELSE IF avail["openai"] THEN "openai"
    ELSE IF avail["claude"] THEN "claude"
    ELSE None

\* mutant: the cheap provider first, whatever the complexity
SelectPrimaryCheapFirst(is_complex) ==
    IF avail["openai"] THEN "openai"
    ELSE IF avail["claude"] THEN "claude"
    ELSE None

\* route(): the primary provider, or None when no provider is available
SelectPrimary(is_complex) ==
    IF is_complex /\ avail["claude"] THEN "claude"
    ELSE IF avail["openai"] THEN "openai"
    ELSE IF avail["claude"] THEN "claude"
    ELSE None

\* mutant: the other provider is the fallback without asking is_available()
SelectFallbackUnchecked(is_complex) ==
    IF is_complex /\ avail["claude"] THEN "openai"
    ELSE IF avail["openai"] THEN "claude"
    ELSE None

\* route(): the fallback provider, or None
SelectFallback(is_complex) ==
    IF is_complex /\ avail["claude"]
        THEN (IF avail["openai"] THEN "openai" ELSE None)
    ELSE IF avail["openai"]
        THEN (IF avail["claude"] THEN "claude" ELSE None)
    ELSE None

\* except Exception: what the handler of route() catches
CaughtByExcept(exc) == exc \in {"ProviderError", "TimeoutError"}

\* ProviderResponse of OpenAIProvider.generate / ClaudeProvider.generate
Responses(p) ==
    { [provider |-> p, model |-> m, prompt_tokens |-> u[1], completion_tokens |-> u[2]] :
        m \in (IF p = "claude" THEN {claude_model} ELSE OpenAIModels), u \in Usages }

\* chat_completions: the HTTP status the caller of route() gets. Whatever
\* Exception route() raises becomes 500 "Internal server error"; a
\* CancelledError is no Exception and leaves the handler without a status
StatusOf(outcome) ==
    IF outcome = "response" THEN "200"
    ELSE IF outcome = "CancelledError" THEN None
    ELSE "500"

\* a route() invocation that has not started: no locals yet
IdleReq ==
    [pc |-> "idle", messages |-> TextWith(0, {}),
     primary |-> None, fallback |-> None, primary_exc |-> None,
     outcome |-> None, returned |-> None, status |-> None,
     generated |-> << >>]

\* a route() invocation that has ended: outcome is "response" or what it
\* raised, returned is the provider tag of the ProviderResponse it returned;
\* status is what chat_completions answers its caller; primary and
\* generated (history: the providers whose generate() the invocation has
\* called, in order) stay on record, the other locals are gone
Ended(r, outcome, returned) ==
    [IdleReq EXCEPT !.pc = "done", !.primary = req[r].primary,
                    !.outcome = outcome, !.returned = returned,
                    !.status = StatusOf(outcome),
                    !.generated = req[r].generated]

Reqs == 1 .. MaxReq

(* ------------------------------- Init --------------------------------- *)
Init ==
    /\ avail \in [Providers -> BOOLEAN]
    /\ monthly_budget \in Budgets
    /\ claude_model \in ClaudeModels
    /\ clock = 0
    /\ current_month = 0
    /\ monthly_costs = ZeroCosts
    /\ monthly_tokens = ZeroTokens
    /\ total_requests = 0
    /\ openai_count = 0
    /\ claude_count = 0
    /\ req = [r \in Reqs |-> IdleReq]
    /\ calls = EmptyBag
    /\ ret = [op |-> None, val |-> [none |-> TRUE]]
    /\ snap = << >>
    /\ rate_limit_store = [a \in Addresses |-> << >>]
    /\ time = 0
    /\ passed = [a \in Addresses |-> << >>]

NoRet == [op |-> None, val |-> [none |-> TRUE]]
NoSnap == << >>

\* the last two entries of a history
Last2(s) == IF Len(s) <= 2 THEN s ELSE SubSeq(s, Len(s) - 1, Len(s))

(* --------------------------- CostTracker ------------------------------ *)
\* mutant: the cost and token counters are assigned, not added to
TrackCallOverwrite(provider, model, input_tokens, output_tokens) ==
    LET cost == Cost(model, input_tokens, output_tokens)
    IN  /\ current_month' = clock
        /\ monthly_costs' = [RolledCosts EXCEPT ![provider] = cost]
        /\ monthly_tokens' = [RolledTokens EXCEPT
              ![provider] = [input |-> input_tokens, output |-> output_tokens]]
        /\ total_requests' = total_requests + 1
        /\ calls' = calls (+) SetToBag({
              [provider |-> provider, model |-> model, input |-> input_tokens,
               output |-> output_tokens, cost |-> cost, month |-> clock]})
        /\ snap' = NoSnap

\* CostTracker.track: rollover, the four increments, then the summary (or
\* the ZeroDivisionError of the summary's utilization)
TrackCall(provider, model, input_tokens, output_tokens) ==
    LET cost == Cost(model, input_tokens, output_tokens)
        costs == [RolledCosts EXCEPT ![provider] = @ + cost]
        tokens == [RolledTokens EXCEPT
                      ![provider].input = @ + input_tokens,
                      ![provider].output = @ + output_tokens]
    IN  /\ current_month' = clock
        /\ monthly_costs' = costs
        /\ monthly_tokens' = tokens
        /\ total_requests' = total_requests + 1
        /\ calls' = calls (+) SetToBag({
              [provider |-> provider, model |-> model, input |-> input_tokens,
               output |-> output_tokens, cost |-> cost, month |-> clock]})
        /\ snap' = NoSnap

\* what that track() call returns or raises
TrackResult(provider, model, input_tokens, output_tokens) ==
    TrackSummary(Cost(model, input_tokens, output_tokens),
                 [RolledCosts EXCEPT ![provider] =
                     @ + Cost(model, input_tokens, output_tokens)])

\* track() called on the tracker directly
Track ==
    /\ BagCardinality(calls) < MaxTracks
    /\ \E p \in Providers : \E model \in TrackModels : \E u \in TrackUsages :
          /\ TrackCall(p, model, u[1], u[2])
          /\ ret' = [op |-> "track", val |-> TrackResult(p, model, u[1], u[2])]
    /\ UNCHANGED <<limiter, config, clock, counters, req>>

\* CostTracker.is_budget_exceeded
IsBudgetExceeded ==
    /\ current_month' = clock
    /\ monthly_costs' = RolledCosts
    /\ monthly_tokens' = RolledTokens
    /\ ret' = [op |-> "is_budget_exceeded",
               val |-> [exceeded |-> TotalCost(RolledCosts) >= monthly_budget]]
    /\ UNCHANGED <<limiter, config, clock, total_requests, counters, req, calls, snap>>

\* CostTracker.get_stats
TrackerGetStats ==
    /\ current_month' = clock
    /\ monthly_costs' = RolledCosts
    /\ monthly_tokens' = RolledTokens
    /\ ret' = NoRet
    /\ snap' = Last2(Append(snap,
          [month |-> clock, result |-> TrackerStats(RolledCosts, RolledTokens)]))
    /\ UNCHANGED <<limiter, config, clock, total_requests, counters, req, calls>>

\* mutant: get_stats counts itself as a request of the tracker
RouterGetStatsCounting ==
    /\ current_month' = clock
    /\ monthly_costs' = RolledCosts
    /\ monthly_tokens' = RolledTokens
    /\ total_requests' = total_requests + 1
    /\ ret' = NoRet
    /\ snap' = Last2(Append(snap,
          [month |-> clock, result |-> RouterStats(RolledCosts, RolledTokens)]))
    /\ UNCHANGED <<limiter, config, clock, counters, req, calls>>

\* QueryRouter.get_stats
RouterGetStats ==
    /\ current_month' = clock
    /\ monthly_costs' = RolledCosts
    /\ monthly_tokens' = RolledTokens
    /\ ret' = NoRet
    /\ snap' = Last2(Append(snap,
          [month |-> clock, result |-> RouterStats(RolledCosts, RolledTokens)]))
    /\ UNCHANGED <<limiter, config, clock, total_requests, counters, req, calls>>

\* ComplexityAnalyzer(threshold).is_complex(messages), with the score it
\* compares
AnalyzerIsComplex ==
    /\ \E threshold \in Thresholds : \E messages \in Texts :
          ret' = [op |-> "is_complex",
                  val |-> [threshold |-> threshold, messages |-> messages,
                           score |-> Score(messages),
                           is_complex |-> IsComplexAt(messages, threshold)]]
    /\ UNCHANGED <<limiter, config, clock, ledger, counters, req, calls, snap>>

\* ClaudeProvider._convert_messages(messages)
ClaudeConvertMessages ==
    /\ \E messages \in MessageLists(MaxMsgs) :
          ret' = [op |-> "_convert_messages",
                  val |-> [messages |-> messages,
                           result |-> ConvertMessages(messages)]]
    /\ UNCHANGED <<limiter, config, clock, ledger, counters, req, calls, snap>>

(* ------------------------ rate_limit_middleware ---------------------- *)
\* the address a request is attributed to: the first entry of
\* X-Forwarded-For, else the peer's host, else "unknown"
ClientIp(request) ==
    IF request.forwarded_for # << >> THEN request.forwarded_for[1]
    ELSE IF request.host # None THEN request.host
    ELSE "unknown"

\* the entries newer than window_start
CleanOldEntries(entries, window_start) ==
    SelectSeq(entries, LAMBDA t : t > window_start)

\* mutant: the request is recorded before the limit is checked, so a
\* rejected request is on record too
RateLimitMiddlewareRecordsFirst(request) ==
    LET client_ip == ClientIp(request)
        now == time
        kept == Append(CleanOldEntries(rate_limit_store[client_ip],
                                       now - rate_limit_window), now)
    IN  /\ request.path \in {"/v1/chat/completions", "/v1/stats", "/v1/models"}
        /\ rate_limit_store' = [rate_limit_store EXCEPT ![client_ip] = kept]
        /\ IF Len(kept) > rate_limit_requests
           THEN /\ ret' = [op |-> "rate_limit_middleware",
                           val |-> [client_ip |-> client_ip, now |-> now,
                                    status |-> "429"]]
                /\ passed' = passed
           ELSE /\ ret' = [op |-> "rate_limit_middleware",
                           val |-> [client_ip |-> client_ip, now |-> now,
                                    status |-> "passed on"]]
                /\ passed' = [passed EXCEPT ![client_ip] = Append(@, now)]
        /\ UNCHANGED <<config, clock, ledger, counters, req, calls, snap, time>>

\* rate_limit_middleware up to call_next: there is no await in it, so it is
\* one step. A request outside /v1/ is passed on unrecorded.
RateLimitMiddleware(request) ==
    LET client_ip == ClientIp(request)
        now == time
        kept == CleanOldEntries(rate_limit_store[client_ip],
                                now - rate_limit_window)
    IN  /\ IF request.path \notin {"/v1/chat/completions", "/v1/stats", "/v1/models"}
           THEN /\ ret' = [op |-> "rate_limit_middleware",
                           val |-> [client_ip |-> None, now |-> now,
                                    status |-> "passed on"]]
                /\ UNCHANGED <<rate_limit_store, passed>>
           ELSE IF Len(kept) >= rate_limit_requests
           THEN /\ rate_limit_store' = [rate_limit_store EXCEPT ![client_ip] = kept]
                /\ ret' = [op |-> "rate_limit_middleware",
                           val |-> [client_ip |-> client_ip, now |-> now,
                                    status |-> "429"]]
                /\ passed' = passed
           ELSE /\ rate_limit_store' =
                      [rate_limit_store EXCEPT ![client_ip] = Append(kept, now)]
                /\ ret' = [op |-> "rate_limit_middleware",
                           val |-> [client_ip |-> client_ip, now |-> now,
                                    status |-> "passed on"]]
                /\ passed' = [passed EXCEPT ![client_ip] = Append(@, now)]
        /\ UNCHANGED <<config, clock, ledger, counters, req, calls, snap, time>>

\* a second passes on the wall clock
TimePasses ==
    /\ time < MaxTime
    /\ time' = time + 1
    /\ UNCHANGED <<config, clock, ledger, counters, req, calls, ret, snap,
                   rate_limit_store, passed>>

\* the wall clock passes into the next UTC month
Tick ==
    /\ clock < MaxMonth
    /\ clock' = clock + 1
    /\ UNCHANGED <<limiter, config, ledger, counters, req, calls, ret, snap>>

(* ---------------------------- QueryRouter ----------------------------- *)
\* route() up to its first await: analyse, select, raise or call the primary
RouteStart(r) ==
    /\ req[r].pc = "idle"
    /\ \A q \in Reqs : q < r => req[q].pc # "idle"
    /\ \E messages \in Conversations :
        LET primary == SelectPrimary(IsComplex(messages))
            fallback == SelectFallback(IsComplex(messages))
        IN  req' = [req EXCEPT ![r] =
                IF primary = None
                THEN Ended(r, "NoProviderAvailable", None)
                ELSE [@ EXCEPT !.pc = "primary", !.messages = messages,
                               !.primary = primary, !.fallback = fallback,
                               !.generated = <<primary>>]]
    /\ snap' = NoSnap
    /\ UNCHANGED <<limiter, config, clock, ledger, counters, calls, ret>>

\* the lifetime counter of the provider that answered, then track(), then
\* return the response (or propagate what track() raised)
Account(r, provider, response) ==
    /\ openai_count' = IF provider = "claude" THEN openai_count ELSE openai_count + 1
    /\ claude_count' = IF provider = "claude" THEN claude_count + 1 ELSE claude_count
    /\ TrackCall(response.provider, response.model, response.prompt_tokens,
                 response.completion_tokens)
    /\ ret' = NoRet
    /\ req' = [req EXCEPT ![r] =
          IF TrackResult(response.provider, response.model, response.prompt_tokens,
                         response.completion_tokens) = ZeroDivisionError
          THEN Ended(r, "ZeroDivisionError", None)
          ELSE Ended(r, "response", response.provider)]
    /\ UNCHANGED <<limiter, config, clock>>

\* the awaited primary.generate() returns
PrimaryReturns(r) ==
    /\ req[r].pc = "primary"
    /\ \E response \in Responses(req[r].primary) :
          Account(r, req[r].primary, response)

\* mutant: the primary's counter is incremented before the await, so a
\* call that raises has been counted
PrimaryRaisesCounted(r) ==
    /\ req[r].pc = "primary"
    /\ \E exc \in Raised :
          req' = [req EXCEPT ![r] =
              IF CaughtByExcept(exc) /\ req[r].fallback # None
              THEN [@ EXCEPT !.pc = "fallback", !.primary_exc = exc,
                             !.generated = Append(@, req[r].fallback)]
              ELSE Ended(r, exc, None)]
    /\ openai_count' =
          IF req[r].primary = "claude" THEN openai_count ELSE openai_count + 1
    /\ claude_count' =
          IF req[r].primary = "claude" THEN claude_count + 1 ELSE claude_count
    /\ snap' = NoSnap
    /\ UNCHANGED <<limiter, config, clock, ledger, calls, ret>>

\* the awaited primary.generate() raises (or the task is cancelled there)
PrimaryRaises(r) ==
    /\ req[r].pc = "primary"
    /\ \E exc \in Raised :
          req' = [req EXCEPT ![r] =
              IF CaughtByExcept(exc) /\ req[r].fallback # None
              THEN [@ EXCEPT !.pc = "fallback", !.primary_exc = exc,
                             !.generated = Append(@, req[r].fallback)]
              ELSE Ended(r, exc, None)]
    /\ snap' = NoSnap
    /\ UNCHANGED <<limiter, config, clock, ledger, counters, calls, ret>>

\* mutant: after a fallback the primary's counter is the one incremented
FallbackReturnsCountsPrimary(r) ==
    /\ req[r].pc = "fallback"
    /\ \E response \in Responses(req[r].fallback) :
          Account(r, req[r].primary, response)

\* mutant: the fallback path tracks the cost and forgets the counter
FallbackReturnsUncounted(r) ==
    /\ req[r].pc = "fallback"
    /\ \E response \in Responses(req[r].fallback) :
          /\ TrackCall(response.provider, response.model, response.prompt_tokens,
                       response.completion_tokens)
          /\ ret' = NoRet
          /\ req' = [req EXCEPT ![r] = Ended(r, "response", response.provider)]
          /\ UNCHANGED <<limiter, config, clock, counters>>

\* the awaited fallback.generate() returns
FallbackReturns(r) ==
    /\ req[r].pc = "fallback"
    /\ \E response \in Responses(req[r].fallback) :
          Account(r, req[r].fallback, response)

\* the awaited fallback.generate() raises: inside the except block, so
\* whatever it raises propagates
FallbackRaises(r) ==
    /\ req[r].pc = "fallback"
    /\ \E exc \in Raised :
          req' = [req EXCEPT ![r] = Ended(r, exc, None)]
    /\ snap' = NoSnap
    /\ UNCHANGED <<limiter, config, clock, ledger, counters, calls, ret>>

\* the router under concurrent route() calls, and the clock
Next ==
    \/ Tick
    \/ \E r \in Reqs : RouteStart(r)
    \/ \E r \in Reqs : PrimaryReturns(r)
    \/ \E r \in Reqs : PrimaryRaises(r)
    \/ \E r \in Reqs : FallbackReturns(r)
    \/ \E r \in Reqs : FallbackRaises(r)

Spec == Init /\ [][Next]_vars

\* the same, with the router's statistics and the tracker's budget check
\* read at any moment
NextStats ==
    \/ Next
    \/ RouterGetStats
    \/ IsBudgetExceeded

SpecStats == Init /\ [][NextStats]_vars

\* the event loop resumes a coroutine whose awaited generate() has ended
SpecFair ==
    /\ Spec
    /\ \A r \in Reqs : WF_vars(PrimaryReturns(r) \/ PrimaryRaises(r))
    /\ \A r \in Reqs : WF_vars(FallbackReturns(r) \/ FallbackRaises(r))

\* the cost tracker alone, used directly
InitTracker == Init /\ avail = [p \in Providers |-> TRUE]

NextTracker ==
    \/ Track
    \/ IsBudgetExceeded
    \/ TrackerGetStats
    \/ Tick

SpecTracker == InitTracker /\ [][NextTracker]_vars

\* the complexity analyzer alone
NextAnalyzer ==
    \/ AnalyzerIsComplex

SpecAnalyzer == InitTracker /\ [][NextAnalyzer]_vars

\* the message converter of the Claude provider alone
NextConvert ==
    \/ ClaudeConvertMessages

SpecConvert == InitTracker /\ [][NextConvert]_vars

\* the rate limiter alone
NextLimiter ==
    \/ \E request \in Requests : RateLimitMiddleware(request)
    \/ TimePasses

SpecLimiter == InitTracker /\ [][NextLimiter]_vars

(* ------------------------ operators of the claims --------------------- *)
Count(p) == IF p = "claude" THEN claude_count ELSE openai_count

\* the counter of provider p after the step
CountNext(p) == IF p = "claude" THEN claude_count' ELSE openai_count'

Other(p) == IF p = "claude" THEN "openai" ELSE "claude"

\* the track() calls on record for provider p
CallsTo(p) == BagCardinality([e \in {c \in BagToSet(calls) : c.provider = p} |-> calls[e]])

\* the sum of a field over the calls on record for provider p made in month m
RECURSIVE SumCalls(_, _, _, _)
SumCalls(S, p, m, field) ==
    IF S = {} THEN 0
    ELSE LET c == CHOOSE x \in S : TRUE
         IN  (IF c.provider = p /\ c.month = m THEN calls[c] * c[field] ELSE 0)
             + SumCalls(S \ {c}, p, m, field)

\* the track() call a step adds to the record
NewCall == CHOOSE c \in BagToSet(calls') : CopiesIn(c, calls') > CopiesIn(c, calls)

\* a step in which a track() call applies its increments
TrackStep == BagCardinality(calls') = BagCardinality(calls) + 1

\* a step that changes none of the accounting state
AccountingUnchanged == UNCHANGED <<ledger, counters, calls>>

\* a provider's ledger entry before a step's increments: zero in a new month
BaseCost(p) == IF clock # current_month THEN 0 ELSE monthly_costs[p]
BaseTokens(p) ==
    IF clock # current_month THEN [input |-> 0, output |-> 0] ELSE monthly_tokens[p]

(* ------------------------------- claims -------------------------------- *)
\* C1: route() picks its primary by strict first match: complex and Claude
\* available -> Claude; else OpenAI available -> OpenAI; else Claude
\* available -> Claude (also for a simple conversation); else it fails with
\* NoProviderAvailable. Stated as the table over is_complex and the two
\* availabilities, for every invocation past its selection.
C1_SelectionPolicy ==
    \A r \in Reqs :
        LET complex == IsComplex(req[r].messages)
            C == avail["claude"]
            O == avail["openai"]
        IN  /\ req[r].pc \in {"primary", "fallback"} =>
                /\ (complex /\ C) => req[r].primary = "claude"
                /\ (complex /\ ~C /\ O) => req[r].primary = "openai"
                /\ (~complex /\ O) => req[r].primary = "openai"
                /\ (~complex /\ ~O /\ C) => req[r].primary = "claude"
                /\ C \/ O
            /\ req[r].pc = "done" =>
                (req[r].outcome = "NoProviderAvailable" <=> (~C /\ ~O))

\* C1 witness: a simple conversation is at Claude's generate, Claude being
\* the only provider available (rule 3)
C1_Witness ==
    \E r \in Reqs :
        /\ req[r].pc = "primary"
        /\ ~IsComplex(req[r].messages)
        /\ req[r].primary = "claude"
        /\ ~avail["openai"]

C3_CounterAndTrackTogether ==
    /\ \A p \in Providers : Count(p) = CallsTo(p)
    /\ openai_count + claude_count = total_requests

\* C3 witness: one route() has returned a response (both effects) and
\* another has raised after its backend failed (neither)
C3_Witness ==
    \E r, q \in Reqs :
        /\ req[r].pc = "done" /\ req[r].outcome = "response"
        /\ req[q].pc = "done" /\ req[q].outcome \in Raised
        /\ openai_count + claude_count = 1
        /\ total_requests = 1

\* C4: every route() invocation ends, under the fairness of SpecFair, by
\* returning one response or by raising one error (an invocation has one
\* outcome by construction of req).
C4_Terminates ==
    \A r \in Reqs : (req[r].pc \in {"primary", "fallback"}) ~> (req[r].pc = "done")

\* C4 as claimed: an ended route() has returned a ProviderResponse, raised
\* the error of a backend call (an error, a timeout, a cancellation) or
\* raised NoProviderAvailable, and nothing else
C4_ThreeOutcomes ==
    \A r \in Reqs :
        req[r].pc = "done" =>
            req[r].outcome \in {"response", "NoProviderAvailable"} \cup Raised

\* C5: no lost update: under every interleaving of the route() calls in
\* flight, the tracker's request counter is the number of track() calls, each
\* lifetime counter the number of them for its provider, and each provider's
\* ledger cost and token counters are the sums over the track() calls of
\* the ledger's month.
C5_NoLostUpdate ==
    /\ total_requests = BagCardinality(calls)
    /\ \A p \in Providers :
        /\ Count(p) = CallsTo(p)
        /\ monthly_costs[p] = SumCalls(BagToSet(calls), p, current_month, "cost")
        /\ monthly_tokens[p].input =
              SumCalls(BagToSet(calls), p, current_month, "input")
        /\ monthly_tokens[p].output =
              SumCalls(BagToSet(calls), p, current_month, "output")

\* C5 witness: two route() calls, the first suspended at its primary and at
\* its fallback while the second ran, have both been answered by OpenAI in
\* one month, and the ledger holds the sum of the two
C5_Witness ==
    /\ \A r \in 1 .. 2 : req[r].pc = "done" /\ req[r].returned = "openai"
    /\ req[1].primary = "claude"
    /\ openai_count = 2
    /\ monthly_tokens["openai"].input = 2000
    /\ monthly_tokens["openai"].output = 4000

\* C6: a track() call made when the clock's month differs from the ledger's
\* leaves the ledger holding exactly that call's cost and tokens, in the new
\* month, and the global request counter one higher.
C6_MonthRollover ==
    [][(TrackStep /\ clock # current_month) =>
          /\ current_month' = clock
          /\ NewCall.month = clock
          /\ \A p \in Providers :
                /\ monthly_costs'[p] = IF p = NewCall.provider THEN NewCall.cost ELSE 0
                /\ monthly_tokens'[p].input =
                      IF p = NewCall.provider THEN NewCall.input ELSE 0
                /\ monthly_tokens'[p].output =
                      IF p = NewCall.provider THEN NewCall.output ELSE 0
          /\ total_requests' = total_requests + 1
      ]_vars

\* C6 witness: after a call in month 0 and a call in month 1 the ledger is
\* in month 1, holds the second call alone, and has counted two requests
C6_Witness ==
    /\ current_month = 1
    /\ total_requests = 2
    /\ \E c, d \in BagToSet(calls) :
          /\ c.month = 0 /\ c.cost > 0
          /\ d.month = 1 /\ d.cost > 0
          /\ monthly_costs[d.provider] = d.cost
          /\ monthly_tokens[d.provider] = [input |-> d.input, output |-> d.output]
          /\ monthly_costs[Other(d.provider)] = 0

C8_Original == Len(snap) = 2 => snap[1].result = snap[2].result

\* a step in which get_stats() returns, an earlier get_stats() being on
\* record with no track() or route() since
SecondGetStats == snap # << >> /\ Len(snap') = 2 /\ snap' # snap

\* C8 amended: if the clock's month is the same at both calls, the second of
\* two consecutive get_stats() calls returns what the first returned and
\* changes no state. (A get_stats() in a new month resets the ledger.)
C8_IdempotentWithinMonth ==
    [][(SecondGetStats /\ snap[Len(snap)].month = clock) =>
          /\ snap'[2].result = snap[Len(snap)].result
          /\ UNCHANGED <<ledger, counters, calls, req>>
      ]_vars

\* C8 witness: two consecutive get_stats() calls in one month, with usage on
\* the books, returned the same
C8_Witness ==
    /\ Len(snap) = 2
    /\ snap[1].month = snap[2].month
    /\ snap[2].result # ZeroDivisionError
    /\ snap[2].result.total_requests = 1
    /\ snap[2].result.cost.total_cost_usd > 0
    /\ snap[1].result = snap[2].result

\* a step in which the generate() call awaited by r is cancelled or times out
CancelledOrTimedOut(r) ==
    /\ req[r].pc \in {"primary", "fallback"}
    /\ \/ /\ req'[r].pc = "done"
           /\ req'[r].outcome \in {"CancelledError", "TimeoutError"}
       \/ /\ req[r].pc = "primary"
           /\ req'[r].pc = "fallback"
           /\ req'[r].primary_exc = "TimeoutError"

\* C9: a generate() call that is cancelled or times out leaves the lifetime
\* counters and the ledger as they were; a counter moves and a track()
\* applies only in a step where a generate() call returned its response.
C9_NoAccountingWithoutResponse ==
    [][/\ \A r \in Reqs : CancelledOrTimedOut(r) => AccountingUnchanged
       /\ ~AccountingUnchanged =>
            \E r \in Reqs :
                /\ req[r].pc \in {"primary", "fallback"}
                /\ req'[r].pc = "done"
                /\ req'[r].outcome \notin Raised
                /\ NewCall.provider =
                      IF req[r].pc = "primary" THEN req[r].primary ELSE req[r].fallback
      ]_vars

\* C9 witness: one route() ended cancelled, another is at its fallback after
\* its primary timed out, and nothing has been accounted
C9_Witness ==
    \E r, q \in Reqs :
        /\ req[r].pc = "done" /\ req[r].outcome = "CancelledError"
        /\ req[q].pc = "fallback" /\ req[q].primary_exc = "TimeoutError"
        /\ openai_count = 0 /\ claude_count = 0
        /\ total_requests = 0
        /\ monthly_costs = ZeroCosts

\* the monthly total across both providers, after the step
TotalNext == monthly_costs'["openai"] + monthly_costs'["claude"]

\* C10: the budget is a soft limit. is_budget_exceeded() returns true
\* exactly when the monthly total is >= monthly_budget; get_stats() reports
\* budget - total as remaining (50 and 60 USD: -10 USD); and route(),
\* whatever the budget's state, selects by availability and complexity
\* alone and accounts every response in full.
C10_SoftBudget ==
    [][/\ ret'.op = "is_budget_exceeded" /\ ret' # ret =>
            (ret'.val.exceeded <=> TotalNext >= monthly_budget)
       /\ (snap' # snap /\ snap' # << >>
              /\ snap'[Len(snap')].result # ZeroDivisionError) =>
            LET s == snap'[Len(snap')].result.cost
            IN  /\ s.budget_remaining_usd = Round4(monthly_budget - TotalNext)
                /\ (monthly_budget = 5000000 /\ TotalNext = 6000000) =>
                      s.budget_remaining_usd = -1000000
       /\ \A r \in Reqs :
            /\ (req[r].pc = "idle" /\ req'[r].pc # "idle") =>
                  IF avail["openai"] \/ avail["claude"]
                  THEN /\ req'[r].pc = "primary"
                       /\ avail[req'[r].primary]
                       /\ (IsComplex(req'[r].messages) /\ avail["claude"])
                              => req'[r].primary = "claude"
                       /\ (~IsComplex(req'[r].messages) /\ avail["openai"])
                              => req'[r].primary = "openai"
                  ELSE req'[r].outcome = "NoProviderAvailable"
            /\ (req[r].pc \in {"primary", "fallback"} /\ req'[r].pc = "done"
                   /\ req'[r].outcome \notin Raised) =>
                  /\ TrackStep
                  /\ CountNext(NewCall.provider) = Count(NewCall.provider) + 1
                  /\ monthly_costs'[NewCall.provider] =
                        BaseCost(NewCall.provider) + NewCall.cost
                  /\ total_requests' = total_requests + 1
      ]_vars

\* C10 witness: budget 50 USD, total 60 USD: is_budget_exceeded() has
\* returned true, get_stats() has reported -10 USD remaining, and a route()
\* is at its backend's generate
C10_Witness ==
    /\ monthly_budget = 5000000
    /\ TotalCost(monthly_costs) = 6000000
    /\ ret.op = "is_budget_exceeded" /\ ret.val.exceeded
    /\ snap # << >>
    /\ snap[Len(snap)].result.cost.budget_remaining_usd = -1000000
    /\ \E r \in Reqs : req[r].pc = "primary"

\* C11 as claimed: track() returns a summary and never raises, whatever the
\* provider tag, the model identifier, the token counts and the configured
\* budget, and no route() whose backend answered ends in an error of the
\* accounting
C11_TrackNeverRaises ==
    /\ ret.op = "track" => ret.val # ZeroDivisionError
    /\ \A r \in Reqs : req[r].outcome # "ZeroDivisionError"

\* the prices of the pricing table, in cents per million tokens, as the
\* documentation of the tracker lists them (1.0/1.0 USD for any other model)
ListedPrice(model) ==
    IF model = "gpt-4o-mini" THEN <<15, 60>>
    ELSE IF model = "gpt-4o" THEN <<250, 1000>>
    ELSE IF model = "claude-sonnet-4-20250514" THEN <<300, 1500>>
    ELSE IF model = "claude-opus-4-20250514" THEN <<1500, 7500>>
    ELSE <<100, 100>>

\* the monthly total before a step's increments: zero in a new month
BaseTotal == BaseCost("openai") + BaseCost("claude")

\* C12: the cost of a track() call is input/1e6 * input price + output/1e6 *
\* output price of the model's pricing entry (1.0/1.0 for a model not in the
\* table), the summary reports that cost, and the monthly total of the
\* clock's month (zero before the first call of a month) goes up by exactly
\* that cost; track(openai, gpt-4o-mini, 1000000, 1000000) costs 0.75 USD.
C12_CostFormula ==
    [][TrackStep =>
          LET c == NewCall
          IN  /\ c.input % 1000 = 0 /\ c.output % 1000 = 0
              /\ c.cost = (c.input \div 1000) * ListedPrice(c.model)[1]
                          + (c.output \div 1000) * ListedPrice(c.model)[2]
              /\ TotalNext = BaseTotal + c.cost
              /\ (ret'.op = "track" /\ ret'.val # ZeroDivisionError) =>
                    /\ ret'.val.cost_usd = c.cost
                    /\ ret'.val.monthly_total_usd = Round4(BaseTotal + c.cost)
              /\ (c.model = "gpt-4o-mini" /\ c.input = 1000000
                     /\ c.output = 1000000) => c.cost = 75000
      ]_vars

\* C12 witness: after an earlier call of the month, track(openai,
\* gpt-4o-mini, 1000000, 1000000) has returned cost 0.75 USD and a total
\* 0.75 USD above the earlier call's cost; a model the table does not know
\* has been charged 1.0/1.0
C12_Witness ==
    /\ ret.op = "track" /\ ret.val # ZeroDivisionError
    /\ ret.val.cost_usd = 75000
    /\ \E c, d \in BagToSet(calls) :
          /\ c.model = "gpt-4o-mini" /\ c.provider = "openai"
          /\ c.input = 1000000 /\ c.output = 1000000
          /\ d.model = "gpt-4o-mini-2024-07-18" /\ d.cost = 300
          /\ c.month = d.month
          /\ ret.val.monthly_total_usd = 75300

\* C13 as claimed: the TCP question is complex, so route() selects Claude as
\* its primary whenever Claude is available
C13_Original ==
    \A r \in Reqs :
        (req[r].pc \in {"primary", "fallback"} /\ req[r].messages = TCPQuestion
            /\ avail["claude"]) => req[r].primary = "claude"

\* C13 amended: the TCP question (11 words, the two patterns 'why' and
\* 'implement') scores 0.022 + 0.24 = 0.262, below the threshold 0.5: it is
\* not complex, and route() selects OpenAI as its primary when OpenAI is
\* available, Claude only when OpenAI is not.
C13_TcpQuestionIsSimple ==
    /\ Matches(TCPQuestion) = 2
    /\ Score(TCPQuestion) = 262
    /\ \A r \in Reqs :
        (req[r].pc \in {"primary", "fallback"} /\ req[r].messages = TCPQuestion) =>
            /\ ~IsComplex(req[r].messages)
            /\ req[r].primary = IF avail["openai"] THEN "openai" ELSE "claude"

\* C13 witness: with both providers available, a route() of the TCP question
\* is at OpenAI's generate
C13_Witness ==
    \E r \in Reqs :
        /\ req[r].pc = "primary"
        /\ req[r].messages = TCPQuestion
        /\ avail["claude"] /\ avail["openai"]
        /\ req[r].primary = "openai"

\* the number of patterns that occur in a text, each counted once
RECURSIVE PatternsFound(_, _)
PatternsFound(occ, i) ==
    IF i = 0 THEN 0
    ELSE (IF occ[i] >= 1 THEN 1 ELSE 0) + PatternsFound(occ, i - 1)

\* C14: for every conversation the score is min(words/200, 1) * 0.4 +
\* min(matches/5, 1) * 0.6, where matches counts each of the 15 patterns at
\* most once; it lies in [0, 1]; and is_complex is (score >= threshold) for
\* every threshold. (Scores in thousandths.)
C14_ScoreRangeAndThreshold ==
    ret.op = "is_complex" =>
        LET v == ret.val
            words == v.messages.words
            matchCount == PatternsFound(v.messages.occ, 15)
        IN  /\ Len(COMPLEX_PATTERNS) = 15
            /\ matchCount <= 15
            /\ v.score = (IF words >= 200 THEN 400 ELSE 2 * words)
                         + (IF matchCount >= 5 THEN 600 ELSE 120 * matchCount)
            /\ v.score >= 0 /\ v.score <= 1000
            /\ v.is_complex <=> (v.score >= v.threshold)

\* C14 witness: a long text in which all 15 patterns occur, each twice, has
\* scored 1.0 and been found complex at threshold 1.0
C14_Witness ==
    /\ ret.op = "is_complex"
    /\ ret.val.messages.words = 1000
    /\ \A i \in 1 .. 15 : ret.val.messages.occ[i] = 2
    /\ ret.val.score = 1000
    /\ ret.val.threshold = 1000
    /\ ret.val.is_complex

C16_GetStatsSucceeds ==
    \A i \in DOMAIN snap :
        LET s == snap[i].result
            total == openai_count + claude_count
        IN  /\ s # ZeroDivisionError
            /\ s.total_requests = total
            /\ s.openai_requests = openai_count
            /\ s.claude_requests = claude_count
            /\ total = 0 => s.openai_percentage = 0 /\ s.claude_percentage = 0
            /\ total > 0 =>
                  /\ s.openai_percentage = RoundDiv(openai_count * 10000, total)
                  /\ s.claude_percentage = RoundDiv(claude_count * 10000, total)
            /\ s.cost.total_requests = total_requests

\* C17: a route() calls generate() at most twice: first on its primary and,
\* only in the step where the primary's call raised and a fallback exists,
\* once on the fallback, which is the other provider; it calls no provider
\* whose is_available() is false; and when the fallback's call raises, the
\* error propagates with no further call.
C17_AtMostTwoGenerateCalls ==
    [][\A r \in Reqs :
        LET g == req[r].generated
            h == req'[r].generated
        IN  /\ Len(h) <= 2
            /\ \A i \in DOMAIN h : avail[h[i]]
            /\ h # g =>
                  \/ /\ g = << >> /\ req[r].pc = "idle"
                     /\ h = <<req'[r].primary>>
                  \/ /\ req[r].pc = "primary" /\ req'[r].pc = "fallback"
                     /\ req'[r].primary_exc \in Raised
                     /\ req[r].fallback # None
                     /\ h = <<req[r].primary, Other(req[r].primary)>>
            /\ req[r].pc = "fallback" /\ req'[r] # req[r] =>
                  /\ req'[r].pc = "done"
                  /\ h = g
            /\ req[r].pc = "done" => req'[r] = req[r]
      ]_vars

\* C17 witness: a route() has ended with the error of its fallback after
\* calling its primary and then the other provider, once each
C17_Witness ==
    \E r \in Reqs :
        /\ req[r].pc = "done"
        /\ req[r].outcome = "ProviderError"
        /\ req[r].generated = <<req[r].primary, Other(req[r].primary)>>

\* C18 as claimed: a route() that ends in an error leaves the accounting
\* state as it was: none of its steps (selecting, a primary that raises,
\* a fallback that raises, the step that ends it) changes a lifetime
\* counter, a ledger cost or token counter or the tracker's request counter
C18_ErrorLeavesAccounting ==
    [][\A r \in Reqs :
          (req'[r] # req[r]
              /\ ~(req'[r].pc = "done" /\ req'[r].outcome = "response")) =>
            AccountingUnchanged
      ]_vars

\* C18, the three cases it lists: no provider available, the primary raises
\* with no fallback, primary and fallback both raise; in these the
\* accounting state is unchanged
C18_ListedCases ==
    [][\A r \in Reqs :
          (req'[r] # req[r] /\ req'[r].pc = "done"
              /\ req'[r].outcome \in {"NoProviderAvailable"} \cup Raised) =>
            AccountingUnchanged
      ]_vars

\* the contents of the system messages, in order, as one string
RECURSIVE SystemContents(_, _)
SystemContents(messages, i) ==
    IF i = 0 THEN << >>
    ELSE SystemContents(messages, i - 1)
         \o (IF messages[i].role = "system" THEN messages[i].content ELSE << >>)

\* a string without the separators it was joined with
Unjoined(str) == SelectSeq(str, LAMBDA piece : piece # Separator)

\* the roles of the messages that are not system messages
NonSystemRoles(messages) ==
    LET rest == SelectSeq(messages, LAMBDA msg : msg.role # "system")
    IN  [i \in DOMAIN rest |-> rest[i].role]

\* C19: _convert_messages returns turns without a system turn, without two
\* consecutive turns of one role and, when there are any, starting with a
\* user turn (the synthetic "Continue." turn when the first non-system
\* message is the assistant's); the system field holds the system messages'
\* contents in their order, or None when there is no system message.
C19_ConvertMessagesShape ==
    ret.op = "_convert_messages" =>
        LET messages == ret.val.messages
            system == ret.val.result.system
            turns == ret.val.result.turns
            roles == NonSystemRoles(messages)
        IN  /\ \A i \in DOMAIN turns : turns[i].role \in {"user", "assistant"}
            /\ \A i \in DOMAIN turns : i > 1 => turns[i].role # turns[i - 1].role
            /\ turns # << >> => turns[1].role = "user"
            /\ turns = << >> <=> roles = << >>
            /\ (roles # << >> /\ roles[1] = "assistant") =>
                  turns[1] = [role |-> "user", content |-> <<"Continue.">>]
            /\ system = None <=> (\A i \in DOMAIN messages : messages[i].role # "system")
            /\ system # None =>
                  Unjoined(system) = SystemContents(messages, Len(messages))

\* C19 witness: system, assistant, assistant has been converted to the
\* system field and two turns, the synthetic user turn and one merged
\* assistant turn
C19_Witness ==
    /\ ret.op = "_convert_messages"
    /\ NonSystemRoles(ret.val.messages) = <<"assistant", "assistant">>
    /\ Len(ret.val.messages) = 3
    /\ ret.val.messages[1].role = "system"
    /\ ret.val.result.system = ret.val.messages[1].content
    /\ Len(ret.val.result.turns) = 2
    /\ ret.val.result.turns[1].content = <<"Continue.">>
    /\ ret.val.result.turns[2].role = "assistant"
    /\ Separator \in {ret.val.result.turns[2].content[j] :
                          j \in DOMAIN ret.val.result.turns[2].content}

\* the route() calls that have returned a response tagged with provider p
ReturnedBy(p) ==
    {r \in Reqs : req[r].pc = "done" /\ req[r].outcome = "response"
                     /\ req[r].returned = p}

\* C20 as claimed: at every await point, with the tracker used through
\* route() only, openai_count + claude_count equals the tracker's request
\* counter and the number of route() calls that have returned a response,
\* and each provider's counter is the number of responses tagged with it
\* and of track() calls charged to it
C20_AccountingConsistency ==
    /\ openai_count + claude_count = total_requests
    /\ total_requests = Cardinality(ReturnedBy("openai") \cup ReturnedBy("claude"))
    /\ \A p \in Providers :
          /\ Count(p) = Cardinality(ReturnedBy(p))
          /\ Count(p) = CallsTo(p)

\* the number of /v1/ requests of address a passed on with a timestamp in
\* the window (t - rate_limit_window, t]
PassedInWindow(a, t) ==
    Len(SelectSeq(passed[a], LAMBDA s : s > t - rate_limit_window /\ s <= t))

\* a step in which the middleware handles a /v1/ request of address a
Handles(a) ==
    /\ ret'.op = "rate_limit_middleware"
    /\ ret'.val.client_ip = a
    /\ \/ ret' # ret
       \/ rate_limit_store' # rate_limit_store

\* C21: for every address and every instant t, at most rate_limit_requests
\* of its /v1/ requests were passed on with a timestamp in (t -
\* rate_limit_window, t]; a request is rejected exactly when that many
\* passed requests lie in its own window, whatever was rejected before, and
\* a rejected request leaves nothing on record; a request of one address
\* changes nothing of another address.
C21_RateLimit ==
    [][/\ \A a \in Addresses : \A t \in 0 .. MaxTime :
            LET n == Len(SelectSeq(passed'[a],
                         LAMBDA s : s > t - rate_limit_window /\ s <= t))
            IN  n <= rate_limit_requests
       /\ \A a \in Addresses :
            Handles(a) =>
              /\ ret'.val.status = "429" <=>
                    PassedInWindow(a, time) >= rate_limit_requests
              /\ ret'.val.status = "429" =>
                    /\ passed' = passed
                    /\ Len(rate_limit_store'[a]) <= Len(rate_limit_store[a])
                    /\ Len(rate_limit_store'[a]) = PassedInWindow(a, time)
              /\ ret'.val.status = "passed on" =>
                    passed'[a] = Append(passed[a], time)
              /\ \A b \in Addresses \ {a} :
                    /\ rate_limit_store'[b] = rate_limit_store[b]
                    /\ passed'[b] = passed[b]
      ]_vars

\* C21 witness: one address has had its limit of requests passed on and the
\* next rejected, was passed on again once the window had moved on, and
\* another address was passed on in between
C21_Witness ==
    /\ ret.op = "rate_limit_middleware"
    /\ ret.val.status = "429"
    /\ ret.val.client_ip = "10.0.0.1"
    /\ Len(passed["10.0.0.1"]) = rate_limit_requests + 1
    /\ passed["10.0.0.1"][1] = 0
    /\ Len(rate_limit_store["10.0.0.1"]) = rate_limit_requests
    /\ passed["unknown"] # << >>

=============================================================================
